---- MODULE Spec2Model ----
(***************************************************************************)
(* Model of the COVID ETL pipeline: src/src/transform.py (to_snake_case,   *)
(* normalize_columns, process_country_df with its nested safe_growth and   *)
(* classify), src/src/run.py (run), src/src/extract.py, src/src/load.py    *)
(* and src/src/config.py.                                                  *)
(*                                                                         *)
(* A string is a sequence of one-character strings.  A table (DataFrame)   *)
(* is a record [cols, rows]: cols is the sequence of column names, rows    *)
(* the sequence of rows; a row carries its index label idx (pandas keeps   *)
(* it through filtering and sorting) and cells, aligned with cols.  A cell *)
(* is a record [t, v]: t is "num" (integer v), "null" (None/NaN),          *)
(* "datestr" (a date string denoting instant v), "date" (Timestamp v),     *)
(* "nat" (NaT), "text" (any other string).  Instants are whole half-days   *)
(* since 1970-01-01T00:00.                                                 *)
(***************************************************************************)
EXTENDS Integers, Sequences, FiniteSets, TLC

VARIABLES
    df,               \* the table handed to normalize_columns / process_country_df
    normOut,          \* what normalize_columns returned
    callArgs,         \* process_country_df: country, risk_thresholds, the clock read
    ret,              \* process_country_df: what it returned or raised
    n,                \* classify: its argument
    risk_thresholds,  \* classify: the thresholds dict it closes over
    risk,             \* classify: its result
    countries,        \* run: config.COUNTRIES
    i,                \* run: position of the for loop in countries
    pc,               \* run: the statement the loop is at
    dfEmpty,          \* run: whether df_raw / df_transformed is empty
    started,          \* run: the countries whose iteration began, in order
    outcome           \* run: how each finished iteration ended

vars == <<df, normOut, callArgs, ret, n, risk_thresholds, risk,
          countries, i, pc, dfEmpty, started, outcome>>

-----------------------------------------------------------------------------
(* Characters *)

UpperSeq == <<"A","B","C","D","E","F","G","H","I","J","K","L","M",
              "N","O","P","Q","R","S","T","U","V","W","X","Y","Z">>
LowerSeq == <<"a","b","c","d","e","f","g","h","i","j","k","l","m",
              "n","o","p","q","r","s","t","u","v","w","x","y","z">>
Upper == {UpperSeq[k] : k \in 1..26}
Lower == {LowerSeq[k] : k \in 1..26}
Digit == {"0","1","2","3","4","5","6","7","8","9"}

LowerOrDigit == Lower \cup Digit
WordChars == Digit \cup Lower \cup Upper \cup {"_"}
ToLower == [c \in Upper |-> LowerSeq[CHOOSE k \in 1..26 : UpperSeq[k] = c]]

\* str.lower() on one character
LowerChar(c) == IF c \in Upper THEN ToLower[c] ELSE c

\* the end of the run of lower-case letters of s that starts at position j
RECURSIVE LowerRunEnd(_, _)
LowerRunEnd(s, j) ==
    IF j < Len(s) /\ s[j + 1] \in Lower THEN LowerRunEnd(s, j + 1) ELSE j

\* re.sub('(.)([A-Z][a-z]+)', r'\1_\2', s), scanning from position j
RECURSIVE SubPascal(_, _)
SubPascal(s, j) ==
    IF j > Len(s) THEN << >>
    ELSE IF /\ j + 2 <= Len(s)
            /\ s[j] /= "\n"
            /\ s[j + 1] \in Upper
            /\ s[j + 2] \in Lower
         THEN LET e == LowerRunEnd(s, j + 2)
              IN  <<s[j], "_">> \o SubSeq(s, j + 1, e) \o SubPascal(s, e + 1)
         ELSE <<s[j]>> \o SubPascal(s, j + 1)

\* re.sub('([a-z0-9])([A-Z])', r'\1_\2', s), scanning from position j
RECURSIVE SubCamel(_, _)
SubCamel(s, j) ==
    IF j > Len(s) THEN << >>
    ELSE IF /\ j + 1 <= Len(s)
            /\ s[j] \in LowerOrDigit
            /\ s[j + 1] \in Upper
         THEN <<s[j], "_", s[j + 1]>> \o SubCamel(s, j + 2)
         ELSE <<s[j]>> \o SubCamel(s, j + 1)

\* s.replace(" ", "_")
ReplaceSpaces(s) == [k \in 1..Len(s) |-> IF s[k] = " " THEN "_" ELSE s[k]]

IsWordChar(c) == c \in WordChars

\* to_snake_case without its fourth step
StripNonWord_NoStrip(s) == s

\* re.sub(r'[^0-9a-zA-Z_]+', "", s)
StripNonWord(s) == SelectSeq(s, IsWordChar)

LowerStr(s) == [k \in 1..Len(s) |-> LowerChar(s[k])]

to_snake_case(s) ==
    LowerStr(StripNonWord(ReplaceSpaces(SubCamel(SubPascal(s, 1), 1))))

\* df.columns = [to_snake_case(c) for c in df.columns]
RenameColumns(d) ==
    [d EXCEPT !.cols = [k \in 1..Len(d.cols) |-> to_snake_case(d.cols[k])]]

\* normalize_columns(df): the caller's frame after the call, and the result
normalize_columns(d) ==
    [caller |-> d, result |-> RenameColumns(d)]

-----------------------------------------------------------------------------
(* Cells, column names and configuration *)

Num(v)     == [t |-> "num", v |-> v]
DateStr(v) == [t |-> "datestr", v |-> v]
Date(v)    == [t |-> "date", v |-> v]
Null       == [t |-> "null", v |-> 0]
NaT        == [t |-> "nat", v |-> 0]
Text       == [t |-> "text", v |-> 0]

S_date           == <<"d","a","t","e">>
S_confirmed      == <<"c","o","n","f","i","r","m","e","d">>
S_cases          == <<"c","a","s","e","s">>
S_new_cases      == <<"n","e","w","_","c","a","s","e","s">>
S_prev_confirmed == <<"p","r","e","v","_","c","o","n","f","i","r","m","e","d">>
S_growth_rate    == <<"g","r","o","w","t","h","_","r","a","t","e">>
S_risk           == <<"r","i","s","k">>
S_country        == <<"c","o","u","n","t","r","y">>

\* config.COVID_DATE = "2023-09-01": 19601 days after 1970-01-01, in half-days
COVID_DATE == 39202

\* config.RISK_THRESHOLDS
RISK_THRESHOLDS == [low |-> 100, medium |-> 500, high |-> 1000]

\* timedelta(days=30)
WindowDays == 30
timedelta(days) == days * 2

\* the defaults of risk_thresholds.get in classify
DefaultMedium == 10000
DefaultLow == 1000

\* dict.get(key, default)
Get(dict, key, default) == IF key \in DOMAIN dict THEN dict[key] ELSE default

-----------------------------------------------------------------------------
(* process_country_df *)

\* classify with >= for >
classify_Inclusive(x, th) ==
    IF x >= Get(th, "medium", DefaultMedium) THEN "alto"
    ELSE IF x >= Get(th, "low", DefaultLow) THEN "medio"
    ELSE "bajo"

\* the nested classify(n), closing over risk_thresholds
classify(x, th) ==
    IF x > Get(th, "medium", DefaultMedium) THEN "alto"
    ELSE IF x > Get(th, "low", DefaultLow) THEN "medio"
    ELSE "bajo"

\* the nested safe_growth: the quotient new_cases / prev as <<numerator,
\* denominator>>, 0.0 as <<0, 1>>
safe_growth(new_cases, prev) ==
    IF prev > 0 THEN <<new_cases, prev>> ELSE <<0, 1>>

\* len(df.columns) == 0 for df.empty
IsEmptyDf_NoColumns(d) == Len(d.cols) = 0

\* df.empty: any axis of length 0
IsEmptyDf(d) == Len(d.cols) = 0 \/ Len(d.rows) = 0

Positions(cols, name) == {k \in 1..Len(cols) : cols[k] = name}

Contains(sub, s) ==
    \E k \in 0..(Len(s) - Len(sub)) : SubSeq(s, k + 1, k + Len(sub)) = sub

Min(S) == CHOOSE x \in S : \A y \in S : x <= y
Max(S) == CHOOSE x \in S : \A y \in S : x >= y

\* next((c for c in df.columns if "date" in c), df.columns[0])
DateCol(cols) ==
    LET hits == {k \in 1..Len(cols) : Contains(S_date, cols[k])}
    IN  IF hits /= {} THEN cols[Min(hits)] ELSE cols[1]

\* pd.to_datetime on one value that parses: an integer is a count of
\* nanoseconds since the epoch, None/NaN is NaT
to_datetime(c) ==
    CASE c.t = "datestr" -> Date(c.v)
      [] c.t = "num"     -> Date(IF c.v >= 0 THEN 0 ELSE -1)
      [] c.t = "null"    -> NaT
      [] OTHER           -> c

Unparseable(c) == c.t = "text"

\* (df[date_col] >= last_30_days) & (df[date_col] <= today), strict below
InWindow_Exclusive(c, today) ==
    /\ c.t = "date"
    /\ c.v > today - timedelta(WindowDays)
    /\ c.v <= today

\* (df[date_col] >= last_30_days) & (df[date_col] <= today); NaT compares False
InWindow(c, today) ==
    /\ c.t = "date"
    /\ c.v >= today - timedelta(WindowDays)
    /\ c.v <= today

SetCell(row, k, c) == [row EXCEPT !.cells[k] = c]

\* .fillna(0).astype(int) on one value of the confirmed column
CoerceInt(c) ==
    IF c.t \in {"null", "nat"} THEN Num(0) ELSE Num(c.v)

\* astype(int) raises ValueError on a string that is no integer literal
NotIntLike(c) == c.t \in {"text", "datestr"}

\* df.sort_values(date_col): every ascending order of the rows (quicksort
\* is not stable: rows with equal dates may come out in any order)
sort_values(rows, k) ==
    {[j \in 1..Len(rows) |-> rows[p[j]]] :
        p \in {q \in Permutations(1..Len(rows)) :
                 \A a, b \in 1..Len(rows) :
                    a < b => rows[q[a]].cells[k].v <= rows[q[b]].cells[k].v}}

\* df["confirmed"].diff().fillna(0).astype(int)
NewCases_FillZero(conf) ==
    [j \in 1..Len(conf) |-> IF j = 1 THEN 0 ELSE conf[j] - conf[j - 1]]

\* df["confirmed"] itself, without the diff
NewCases_NoDiff(conf) == conf

\* df["confirmed"].diff().fillna(df["confirmed"]).astype(int): diff() leaves
\* NaN in the first row, fillna takes that row's confirmed
NewCases(conf) ==
    LET diff == [j \in 1..Len(conf) |->
                    IF j = 1 THEN Null ELSE Num(conf[j] - conf[j - 1])]
    IN  [j \in 1..Len(conf) |->
            IF diff[j].t = "null" THEN conf[j] ELSE diff[j].v]

\* df["confirmed"].shift(1).fillna(0).astype(int)
PrevConfirmed(conf) ==
    LET shifted == [j \in 1..Len(conf) |->
                       IF j = 1 THEN Null ELSE Num(conf[j - 1])]
    IN  [j \in 1..Len(conf) |->
            IF shifted[j].t = "null" THEN 0 ELSE shifted[j].v]

RECURSIVE SumSeq(_)
SumSeq(s) == IF s = << >> THEN 0 ELSE s[1] + SumSeq(Tail(s))

SeqMax(s) == Max({s[j] : j \in 1..Len(s)})

\* totals with the sum of confirmed for its maximum
Totals_SumConfirmed(country, conf, new_cases) ==
    [country |-> country,
     total_confirmed |-> IF Len(conf) > 0 THEN SumSeq(conf) ELSE 0,
     total_new_cases |-> IF Len(conf) > 0 THEN SumSeq(new_cases) ELSE 0]

\* the totals dict
Totals(country, conf, new_cases) ==
    [country |-> country,
     total_confirmed |-> IF Len(conf) > 0 THEN SeqMax(conf) ELSE 0,
     total_new_cases |-> IF Len(conf) > 0 THEN SumSeq(new_cases) ELSE 0]

NoTable == [cols |-> << >>, rows |-> << >>]
NoTotals == [country |-> "", total_confirmed |-> 0, total_new_cases |-> 0]

Returned(table, totals) ==
    [kind |-> "ok", err |-> "", table |-> table, totals |-> totals]
Raised(err) ==
    [kind |-> "raise", err |-> err, table |-> NoTable, totals |-> NoTotals]

\* the exceptions, named by the statement that raises them: an unparseable
\* value in pd.to_datetime, and four ValueErrors
UnparseableDate  == "UnparseableDate"
DuplicateKeys    == "ValueError: to_datetime, cannot assemble with duplicate keys"
InvalidLiteral   == "ValueError: astype(int), invalid literal"
SetNewCases      == "ValueError: cannot set a frame with multiple columns to new_cases"
SetGrowthRate    == "ValueError: cannot set a frame with multiple columns to growth_rate"

\* the rename of cases to confirmed and the synthesized confirmed = 0
ResolveConfirmed(t) ==
    LET renamed ==
            IF Positions(t.cols, S_confirmed) = {} /\ Positions(t.cols, S_cases) /= {}
            THEN [k \in 1..Len(t.cols) |->
                     IF t.cols[k] = S_cases THEN S_confirmed ELSE t.cols[k]]
            ELSE t.cols
    IN  IF Positions(renamed, S_confirmed) = {}
        THEN [cols |-> Append(renamed, S_confirmed),
              rows |-> [j \in 1..Len(t.rows) |->
                           [t.rows[j] EXCEPT !.cells = Append(@, Num(0))]]]
        ELSE [cols |-> renamed, rows |-> t.rows]

\* df["confirmed"] = df["confirmed"].fillna(0).astype(int), on every column
\* of that name
CoerceConfirmed(t) ==
    LET kc == Positions(t.cols, S_confirmed)
    IN  [t EXCEPT !.rows =
            [j \in 1..Len(t.rows) |->
                [t.rows[j] EXCEPT !.cells =
                    [k \in 1..Len(t.cols) |->
                        IF k \in kc THEN CoerceInt(@[k]) ELSE @[k]]]]]

DerivedCols == <<S_new_cases, S_prev_confirmed, S_growth_rate, S_risk, S_country>>

\* the new_cases, prev_confirmed, growth_rate, risk and country columns and
\* the totals, on the sorted frame whose confirmed column is at kc
Enrich(cols, sorted, kc, country, th) ==
    LET conf == [j \in 1..Len(sorted) |-> sorted[j].cells[kc].v]
        new  == NewCases(conf)
        prev == PrevConfirmed(conf)
        rows == [j \in 1..Len(sorted) |->
                    [idx |-> sorted[j].idx,
                     cells |-> sorted[j].cells,
                     new_cases |-> new[j],
                     prev_confirmed |-> prev[j],
                     growth_rate |-> safe_growth(new[j], prev[j]),
                     risk |-> classify(new[j], th),
                     country |-> country]]
    IN  Returned([cols |-> cols \o DerivedCols, rows |-> rows],
                 Totals(country, conf, new))

\* df.apply(..., axis=1) on a frame without rows: pandas' apply_empty_result
\* calls the function on a probe Series; builds that probe with an empty
\* Series get a KeyError, return a copy of the frame, and the assignment to
\* df["growth_rate"] raises ValueError; builds that probe with a NaN Series
\* over the columns get 0.0 and return an empty Series.
ApplyOnEmpty(ok) == {Raised(SetGrowthRate), ok}

\* every result process_country_df(df, country, risk_thresholds) can have
\* when datetime.today() reads today
process_country_df(d, country, th, today) ==
    IF IsEmptyDf(d)
    THEN {Returned(d, [country |-> country, total_confirmed |-> 0,
                       total_new_cases |-> 0])}
    ELSE
    LET d1 == normalize_columns(d).result
        kd == Positions(d1.cols, DateCol(d1.cols))
        k  == Min(kd)
    IN  \* pd.to_datetime of the two-dimensional df[date_col]
        IF Cardinality(kd) > 1 THEN {Raised(DuplicateKeys)}
        ELSE IF \E j \in 1..Len(d1.rows) : Unparseable(d1.rows[j].cells[k])
        THEN {Raised(UnparseableDate)}
        ELSE
    LET parsed == [j \in 1..Len(d1.rows) |->
                      SetCell(d1.rows[j], k, to_datetime(d1.rows[j].cells[k]))]
        Keep(r) == InWindow(r.cells[k], today)
        d2 == ResolveConfirmed([cols |-> d1.cols, rows |-> SelectSeq(parsed, Keep)])
        kcs == Positions(d2.cols, S_confirmed)
    IN  IF \E j \in 1..Len(d2.rows) : \E c \in kcs : NotIntLike(d2.rows[j].cells[c])
        THEN {Raised(InvalidLiteral)}
        \* df["new_cases"] = a frame of several columns
        ELSE IF Cardinality(kcs) > 1 THEN {Raised(SetNewCases)}
        ELSE
    LET d3 == CoerceConfirmed(d2)
        results == {Enrich(d3.cols, sorted, Min(kcs), country, th) :
                       sorted \in sort_values(d3.rows, k)}
    IN  IF Len(d3.rows) = 0
        THEN UNION {ApplyOnEmpty(r) : r \in results}
        ELSE results

-----------------------------------------------------------------------------
(* Inputs *)

MaxRows == 2
MaxConfirmed == 2
MaxLen == 3
MaxCountries == 3

\* what datetime.today() may read: midnight of COVID_DATE, or noon
ClockReadings == {COVID_DATE, COVID_DATE + 1}

\* the dates a report may carry: on either edge of the window of either clock
\* reading
DateInstants ==
    {COVID_DATE - timedelta(WindowDays), COVID_DATE, COVID_DATE + 1}

\* the values a column of each kind may hold
CellsOf(kind) ==
    CASE kind = "date"   -> {DateStr(v) : v \in DateInstants} \cup {Null, Text}
      [] kind = "day"    -> {DateStr(v) : v \in DateInstants}
      [] kind = "num"    -> {Num(v) : v \in -1..MaxConfirmed} \cup {Null}
      [] kind = "one"    -> {Num(1)}
      [] kind = "dirty"  -> {Num(1), Text}
      [] kind = "text"   -> {Text}

AllCells ==
    UNION {CellsOf(kind) : kind \in {"date", "day", "num", "one", "dirty", "text"}}

Col(name, kind) == [name |-> name, kind |-> kind]

N_Date       == <<"D","a","t","e">>
N_Cases      == <<"C","a","s","e","s">>
N_Confirmed  == <<"C","o","n","f","i","r","m","e","d">>
N_lastUpdate == <<"l","a","s","t","U","p","d","a","t","e">>
N_RegionName == <<"R","e","g","i","o","n"," ","N","a","m","e">>
N_regionIso  == <<"r","e","g","i","o","n",".","i","s","o">>

\* the raw column layouts: the API's own, the cases alias, no confirmed
\* column, no date-like column (numeric or text first column), colliding
\* names after normalization (date, confirmed, a text column), a confirmed
\* column holding text, and pd.DataFrame()
Layouts ==
    { <<Col(S_date, "date"), Col(S_confirmed, "num")>>,
      <<Col(N_Cases, "num"), Col(N_lastUpdate, "date")>>,
      <<Col(N_Date, "date")>>,
      <<Col(S_confirmed, "num")>>,
      <<Col(N_RegionName, "text"), Col(S_confirmed, "num")>>,
      <<Col(N_Date, "day"), Col(S_date, "day")>>,
      <<Col(S_date, "day"), Col(N_Confirmed, "num"), Col(S_confirmed, "one")>>,
      <<Col(S_date, "date"), Col(N_regionIso, "text"), Col(N_regionIso, "text")>>,
      <<Col(S_date, "date"), Col(S_confirmed, "dirty")>>,
      << >> }

RowsOf(layout) ==
    {c \in [1..Len(layout) -> AllCells] :
        \A k \in 1..Len(layout) : c[k] \in CellsOf(layout[k].kind)}

\* the frame of a layout with the rows f[1], ..., f[m], index 0, 1, ...
TableOf(layout, m, f) ==
    [cols |-> [k \in 1..Len(layout) |-> layout[k].name],
     rows |-> [j \in 1..m |-> [idx |-> j - 1, cells |-> f[j]]]]

\* a frame without columns has no rows
RowCounts(layout) == IF Len(layout) = 0 THEN {0} ELSE 0..MaxRows

\* the (country, risk_thresholds) process_country_df is called with: the
\* configured thresholds, and cutoffs within reach of the counts above
CallChoices ==
    { [country |-> "MX", th |-> RISK_THRESHOLDS],
      [country |-> "CO", th |-> [low |-> 0, medium |-> 1]] }

NoNorm == [called |-> FALSE, result |-> NoTable]
NoArgs == [country |-> "", th |-> RISK_THRESHOLDS, today |-> 0]
NoRet  == [kind |-> "none", err |-> "", table |-> NoTable, totals |-> NoTotals]

IdleTables == df = NoTable /\ normOut = NoNorm /\ callArgs = NoArgs /\ ret = NoRet
IdleClassify == n = 0 /\ risk_thresholds = RISK_THRESHOLDS /\ risk = ""
IdleRun ==
    /\ countries = << >> /\ i = 0 /\ pc = "idle" /\ dfEmpty = TRUE
    /\ started = << >> /\ outcome = << >>

tableVars == <<df, normOut, callArgs, ret>>
classifyVars == <<n, risk_thresholds, risk>>
runVars == <<countries, i, pc, dfEmpty, started, outcome>>

-----------------------------------------------------------------------------
(* process_country_df on every table *)

InitProcess ==
    /\ \E layout \in Layouts : \E m \in RowCounts(layout) :
          \E f \in [1..m -> RowsOf(layout)] : df = TableOf(layout, m, f)
    /\ normOut = NoNorm /\ callArgs = NoArgs /\ ret = NoRet
    /\ IdleClassify /\ IdleRun

\* one call process_country_df(df, country, risk_thresholds)
ProcessCall ==
    /\ ret.kind = "none"
    /\ \E call \in CallChoices, today \in ClockReadings :
          /\ callArgs' = [country |-> call.country, th |-> call.th, today |-> today]
          /\ ret' \in process_country_df(df, call.country, call.th, today)
    /\ UNCHANGED <<df, normOut, classifyVars, runVars>>

NextProcess == ProcessCall

SpecProcess == InitProcess /\ [][NextProcess]_vars

-----------------------------------------------------------------------------
(* normalize_columns on every column name *)

\* a lower-case letter, a capital, a digit, the space, the underscore,
\* punctuation, and the newline that '.' does not match
Alphabet == {"a", "A", "7", " ", "_", "-", "\n"}

Headers == {<< >>, <<S_date>>, <<N_Date, S_confirmed>>}

\* cols with name put in after its first pos names
InsertAt(cols, pos, name) ==
    SubSeq(cols, 1, pos) \o <<name>> \o SubSeq(cols, pos + 1, Len(cols))

InitSnake ==
    /\ \E len \in 0..MaxLen : \E s \in [1..len -> Alphabet] :
       \E header \in Headers : \E pos \in 0..Len(header) :
          LET cols == InsertAt(header, pos, s)
          IN  df = [cols |-> cols,
                    rows |-> <<[idx |-> 0, cells |-> [k \in 1..Len(cols) |-> Text]]>>]
    /\ normOut = NoNorm /\ callArgs = NoArgs /\ ret = NoRet
    /\ IdleClassify /\ IdleRun

\* one call normalize_columns(df)
NormalizeCall ==
    /\ ~normOut.called
    /\ LET r == normalize_columns(df)
       IN  /\ df' = r.caller
           /\ normOut' = [called |-> TRUE, result |-> r.result]
    /\ UNCHANGED <<callArgs, ret, classifyVars, runVars>>

NextSnake == NormalizeCall

SpecSnake == InitSnake /\ [][NextSnake]_vars

-----------------------------------------------------------------------------
(* classify on every count and thresholds dict *)

NValues == {-1, 0, 5, 6, 20, 21, 50, 100, 101, 500, 501, 1000, 1001, 10000, 10001}
ThresholdValues == {5, 20, 100, 500, 1000}
ThresholdKeys == {"low", "medium", "high"}

InitClassify ==
    /\ n \in NValues
    /\ \E K \in SUBSET ThresholdKeys : risk_thresholds \in [K -> ThresholdValues]
    /\ risk = ""
    /\ IdleTables /\ IdleRun

\* one call classify(n)
ClassifyCall ==
    /\ risk = ""
    /\ risk' = classify(n, risk_thresholds)
    /\ UNCHANGED <<n, risk_thresholds, tableVars, runVars>>

NextClassify == ClassifyCall

SpecClassify == InitClassify /\ [][NextClassify]_vars

-----------------------------------------------------------------------------
(* run *)

\* config.COUNTRIES: str.split(",") never returns an empty list
InitRun ==
    /\ \E len \in 1..MaxCountries : countries \in [1..len -> {"MX", "CO", "PE"}]
    /\ i = 0 /\ pc = "for" /\ dfEmpty = TRUE
    /\ started = << >> /\ outcome = << >>
    /\ IdleTables /\ IdleClassify

\* an except clause that logs and raises again
OuterExcept_Reraise ==
    /\ outcome' = Append(outcome, "failed")
    /\ pc' = "raised"

\* except Exception: logger.exception(...), and the loop goes on
OuterExcept ==
    /\ outcome' = Append(outcome, "failed")
    /\ pc' = "for"

\* for iso in COUNTRIES, and the logger.info that opens the iteration (the
\* logging module reports a bad format string itself, it does not raise)
ForNext ==
    /\ pc = "for"
    /\ IF i < Len(countries)
       THEN /\ i' = i + 1
            /\ started' = Append(started, countries[i + 1])
            /\ pc' = "extract"
       ELSE /\ pc' = "done"
            /\ UNCHANGED <<i, started>>
    /\ UNCHANGED <<countries, dfEmpty, outcome, tableVars, classifyVars>>

\* df_raw = fetch_country_confirmed(iso, COVID_DATE)
Extract ==
    /\ pc = "extract"
    /\ \/ \* the API answered with data
          /\ dfEmpty' = FALSE /\ pc' = "transform" /\ UNCHANGED outcome
       \/ \* no data, or the request failed: caught, pd.DataFrame() returned
          /\ dfEmpty' = TRUE /\ pc' = "transform" /\ UNCHANGED outcome
       \/ \* requests_session_with_retries(), outside the try, raised
          /\ OuterExcept /\ UNCHANGED dfEmpty
    /\ UNCHANGED <<countries, i, started, tableVars, classifyVars>>

\* df_transformed, totals = process_country_df(df_raw, iso, RISK_THRESHOLDS)
Transform ==
    /\ pc = "transform"
    /\ \/ \* an empty frame comes back as it is
          /\ dfEmpty /\ pc' = "save" /\ UNCHANGED <<dfEmpty, outcome>>
       \/ \* rows are left in the window, or none
          /\ ~dfEmpty /\ dfEmpty' \in BOOLEAN /\ pc' = "save" /\ UNCHANGED outcome
       \/ /\ ~dfEmpty /\ OuterExcept /\ UNCHANGED dfEmpty
    /\ UNCHANGED <<countries, i, started, tableVars, classifyVars>>

\* local_path = save_local_parquet(df_transformed, iso, COVID_DATE)
Save ==
    /\ pc = "save"
    /\ \/ pc' = "upload" /\ UNCHANGED outcome
       \/ OuterExcept
    /\ UNCHANGED <<countries, i, dfEmpty, started, tableVars, classifyVars>>

\* upload_to_s3(...) inside its own try: a failure is logged and dropped
Upload ==
    /\ pc = "upload"
    /\ \/ outcome' = Append(outcome, "ok")
       \/ outcome' = Append(outcome, "upload_failed")
    /\ pc' = "for"
    /\ UNCHANGED <<countries, i, dfEmpty, started, tableVars, classifyVars>>

NextRun == ForNext \/ Extract \/ Transform \/ Save \/ Upload

\* run() is one thread of straight-line code: it takes its next step
SpecRun == InitRun /\ [][NextRun]_vars /\ WF_vars(NextRun)

-----------------------------------------------------------------------------
(* Properties *)

HasData(d) == Len(d.cols) > 0 /\ Len(d.rows) > 0

OutRows == ret.table.rows
OutConfPos == Min(Positions(ret.table.cols, S_confirmed))
OutDatePos == Min(Positions(ret.table.cols, DateCol(ret.table.cols)))
OutConf ==
    LET kc == OutConfPos
    IN  [j \in 1..Len(OutRows) |-> OutRows[j].cells[kc].v]
OutNew == [j \in 1..Len(OutRows) |-> OutRows[j].new_cases]
OutDates ==
    LET kd == OutDatePos
    IN  [j \in 1..Len(OutRows) |-> OutRows[j].cells[kd]]
OutDate(j) == OutDates[j]

\* the parsed dates of the raw rows, in the order given
RawDatePos ==
    LET cols == [k \in 1..Len(df.cols) |-> to_snake_case(df.cols[k])]
    IN  Min(Positions(cols, DateCol(cols)))
RawDates ==
    LET kd == RawDatePos
    IN  [j \in 1..Len(df.rows) |-> to_datetime(df.rows[j].cells[kd])]
\* the parsed date of the raw row with index label x
RawDate(x) == RawDates[x + 1]

\* the rows of the result are the raw rows dated within 30 days before ref
WindowIs(ref) ==
    LET raw == RawDates
        out == OutDates
    IN  /\ {OutRows[j].idx : j \in 1..Len(OutRows)} =
              {x \in 0..(Len(df.rows) - 1) :
                  /\ raw[x + 1].t = "date"
                  /\ ref - 60 <= raw[x + 1].v
                  /\ raw[x + 1].v <= ref}
        /\ \A a, b \in 1..Len(OutRows) : a /= b => OutRows[a].idx /= OutRows[b].idx
        /\ \A j \in 1..Len(OutRows) : out[j] = raw[OutRows[j].idx + 1]

\* C1: in run(), whatever stage fails for whatever country, every country of
\* COUNTRIES is started exactly once, in list order, and run() ends without
\* raising.
C1_RunStartsEveryCountry ==
    /\ [](pc /= "raised" /\ Len(started) = i /\ started = SubSeq(countries, 1, i))
    /\ [](pc = "done" => started = countries /\ Len(outcome) = Len(countries))
    /\ <>(pc = "done")

\* run() is over; the first country failed in the outer try, the second in
\* the upload, the third went through
C1_Witness ==
    /\ pc = "done"
    /\ outcome = <<"failed", "upload_failed", "ok">>
    /\ started = countries

\* C2: for a non-empty raw table process_country_df returns its pair, or
\* fails on an unparseable date value and on nothing else.  (The failure of
\* df.apply on a frame without rows, which only some pandas builds have, is
\* not held against the claim here.)
C2_OnlyUnparseableDateRaises ==
    (HasData(df) /\ ret.kind /= "none") =>
        (ret.kind = "ok" \/ ret.err \in {UnparseableDate, SetGrowthRate})

C4_NewCasesIsDiff ==
    (HasData(df) /\ ret.kind = "ok") =>
        LET date == OutDates
            conf == OutConf
        IN  /\ \A a, b \in 1..Len(OutRows) : a < b => date[a].v <= date[b].v
            /\ \A j \in 1..Len(OutRows) :
                  OutNew[j] = IF j = 1 THEN conf[1] ELSE conf[j] - conf[j - 1]

\* two raw rows given latest first come out earliest first, with a first
\* new_cases and a difference that are not 0
C4_Witness ==
    /\ ret.kind = "ok"
    /\ Len(OutRows) = 2
    /\ OutRows[1].idx = 1 /\ OutRows[2].idx = 0
    /\ OutDate(1).v < OutDate(2).v
    /\ OutConf = <<2, 1>>
    /\ OutNew = <<2, -1>>

\* C5: no row of the result has a negative confirmed.
C5_ConfirmedNonNegative ==
    (HasData(df) /\ ret.kind = "ok") =>
        \A j \in 1..Len(OutRows) : OutConf[j] >= 0

\* C6: total_confirmed is the maximum of confirmed and total_new_cases the
\* sum of new_cases, and both are 0 when the result has no rows.
C6_Totals ==
    ret.kind = "ok" =>
        IF Len(OutRows) = 0
        THEN ret.totals.total_confirmed = 0 /\ ret.totals.total_new_cases = 0
        ELSE LET conf == OutConf
             IN  /\ \E j \in 1..Len(OutRows) : ret.totals.total_confirmed = conf[j]
                 /\ \A j \in 1..Len(OutRows) : ret.totals.total_confirmed >= conf[j]
                 /\ ret.totals.total_new_cases = SumSeq(OutNew)

\* two rows in the window, 2 then 1 confirmed: the maximum is not the last
\* confirmed, nor the sum of new_cases
C6_Witness ==
    /\ ret.kind = "ok"
    /\ Len(OutRows) = 2
    /\ OutConf = <<2, 1>>
    /\ ret.totals = [country |-> callArgs.country, total_confirmed |-> 2,
                     total_new_cases |-> 1]

\* C7: classify gives "alto" above medium, "medio" above low and up to
\* medium, "bajo" otherwise, with 1000 and 10000 for an absent low and
\* medium; the high key has no effect.
C7_ClassifyRule ==
    risk /= "" =>
        LET low == IF "low" \in DOMAIN risk_thresholds
                   THEN risk_thresholds["low"] ELSE 1000
            medium == IF "medium" \in DOMAIN risk_thresholds
                      THEN risk_thresholds["medium"] ELSE 10000
            others == DOMAIN risk_thresholds \ {"high"}
        IN  /\ n > medium => risk = "alto"
            /\ (low < n /\ n <= medium) => risk = "medio"
            /\ (n <= medium /\ n <= low) => risk = "bajo"
            /\ risk \in {"alto", "medio", "bajo"}
            /\ (low = 100 /\ medium = 500) =>
                  /\ n \in {50, 100} => risk = "bajo"
                  /\ n \in {101, 500} => risk = "medio"
                  /\ n = 501 => risk = "alto"
            /\ risk = classify(n, [key \in others |-> risk_thresholds[key]])

\* a count on the medium cutoff falls in the lower tier, with a high key set
C7_Witness ==
    /\ risk = "medio"
    /\ n = 500
    /\ risk_thresholds = [low |-> 100, medium |-> 500, high |-> 100]

\* C8: for an empty raw table process_country_df returns that table as it
\* is, no column renamed or added, with the zero totals of the country.
C8_EmptyPassThrough ==
    (~HasData(df) /\ ret.kind /= "none") =>
        /\ ret.kind = "ok"
        /\ ret.table = df
        /\ ret.totals = [country |-> callArgs.country, total_confirmed |-> 0,
                         total_new_cases |-> 0]

\* a table with columns that normalization would rename, and no rows
C8_Witness ==
    /\ df = [cols |-> <<N_Cases, N_lastUpdate>>, rows |-> << >>]
    /\ ret.kind = "ok"
    /\ ret.table.cols = <<N_Cases, N_lastUpdate>>
    /\ callArgs.country = "MX"

\* C9: every column name normalize_columns produces is made of a-z, 0-9 and
\* _ only; the result has the caller's rows and as many columns, the k-th
\* named after the caller's k-th; the caller's table is left as it was.
C9_NormalizedNames ==
    [][normOut'.called =>
          /\ df' = df
          /\ normOut'.result.rows = df.rows
          /\ Len(normOut'.result.cols) = Len(df.cols)
          /\ \A k \in 1..Len(df.cols) :
                /\ normOut'.result.cols[k] = to_snake_case(df.cols[k])
                /\ \A c \in 1..Len(normOut'.result.cols[k]) :
                      normOut'.result.cols[k][c] \in Lower \cup Digit \cup {"_"}]_vars

\* a camelCase name ending in punctuation, normalized in its place
C9_Witness ==
    /\ normOut.called
    /\ df.cols = <<N_Date, <<"a", "A", "-">>, S_confirmed>>
    /\ normOut.result.cols = <<S_date, <<"a", "_", "a">>, S_confirmed>>

\* C10: when the result has rows, total_new_cases is the confirmed of the
\* last row; it is total_confirmed when confirmed does not decrease.
C10_TotalNewCasesTelescopes ==
    (HasData(df) /\ ret.kind = "ok" /\ Len(OutRows) > 0) =>
        LET conf == OutConf
        IN  /\ ret.totals.total_new_cases = conf[Len(OutRows)]
            /\ (\A j \in 2..Len(OutRows) : conf[j - 1] <= conf[j]) =>
                  ret.totals.total_new_cases = ret.totals.total_confirmed

\* two rows in the window, 1 then 2 confirmed: one new case in the window,
\* total_new_cases 2
C10_Witness ==
    /\ ret.kind = "ok"
    /\ Len(OutRows) = 2
    /\ OutConf = <<1, 2>>
    /\ ret.totals.total_new_cases = 2
    /\ ret.totals.total_confirmed = 2

====
